---------------------------- MODULE Spec2Model ----------------------------
(***************************************************************************)
(* Model of the interaction-timing metrics recorder (VoiceAgentMetrics,    *)
(* src/main.py) and of the callers that drive it.                          *)
(*                                                                         *)
(* Times and durations are integers counting 1/Res of a millisecond, so    *)
(* that round(x, 3) (rounding to whole milliseconds) is a real operation.  *)
(* Python's None is the empty tuple and a present value v is <<v>>.        *)
(***************************************************************************)
EXTENDS Integers, Sequences, FiniteSets, TLC

\* ------------------------------------------------------------- bounds
\* Units per millisecond (the resolution of the modelled clock).
Res == 4
\* Number of distinct readings the wall clock (time.time()) gives.
MaxTime == 3
\* Largest number of records the callers log into one recorder.
MaxLen == 2
\* Largest number of calls (entrypoint invocations) one process handles.
MaxCalls == 2
\* Largest number of on_message turns in one call.
MaxTurns == 1

VARIABLES
    session_start_time,   \* VoiceAgentMetrics.session_start_time
    session_end_time,     \* VoiceAgentMetrics.session_end_time
    interactions,         \* VoiceAgentMetrics.interactions
    session_id,           \* VoiceAgentMetrics.session_id
    now,                  \* the wall clock read by time.time()
    csv_file,             \* content of logs/voice_agent_metrics_<session_id>.csv
    json_file,            \* content of logs/voice_agent_metrics_<session_id>.json
    room,                 \* the call's room: "open" until it is deleted
    conversation_id,      \* Assistant.conversation_id of the call's Assistant
    interaction_count,    \* Assistant.interaction_count
    calls,                \* entrypoint invocations so far
    call_base,            \* len(interactions) when the call's entrypoint began
    session_ends,         \* end_session executions since that entrypoint
    http_pc,              \* where the server thread is in GET /metrics
    http_i,               \* the index its calculate_metrics loop has reached
    http_summary,         \* the local `summary` of get_metrics
    current_speech_start_time,    \* Assistant.current_speech_start_time
    current_speech_end_time,      \* Assistant.current_speech_end_time
    current_response_start_time,  \* Assistant.current_response_start_time
    current_response_end_time,    \* Assistant.current_response_end_time
    vad_start_time,       \* EnhancedAssistant.vad_start_time
    vad_end_time,         \* EnhancedAssistant.vad_end_time
    tasks,                \* the on_message invocations: where each one is, its
                          \* locals and the clock readings it took itself
    tel_pc,               \* where make_outbound_call of call.py is
    outbound_trunk_id,    \* TelephonyManager.outbound_trunk_id
    phone_number,         \* the number make_call dials
    room_name,            \* make_call's room_name
    dispatch_created,     \* create_dispatch returned a dispatch
    sip_created,          \* create_sip_participant returned a participant
    lkapi_closed,         \* lkapi.aclose() has run
    tel_calls,            \* make_outbound_call invocations so far
    time_s,               \* time.time() of the inactivity monitor, in seconds
    last_interaction_time,    \* entrypoint's last_interaction_time
    still_there_prompt_sent,  \* entrypoint's still_there_prompt_sent
    is_agent_speaking,    \* entrypoint's is_agent_speaking
    is_user_speaking,     \* entrypoint's is_user_speaking
    mon_pc,               \* where entrypoint and monitor_interaction are
    mon_wake,             \* when the monitor's asyncio.sleep ends
    pending,              \* 1 while what was passed to agent.say has not begun
    spoken_for,           \* seconds the agent has been speaking
    hangups,              \* ctx.room.disconnect() attempts
    prompts_since_reset,  \* "Are you still there?" said since reset_timeout
    last_call,            \* the operation that ran last
    ret                   \* what that operation returned, raised or printed

vars == <<session_start_time, session_end_time, interactions, session_id, now,
          csv_file, json_file, room, conversation_id, interaction_count,
          calls, call_base, session_ends, http_pc, http_i, http_summary,
          current_speech_start_time, current_speech_end_time,
          current_response_start_time, current_response_end_time,
          vad_start_time, vad_end_time, tasks, tel_pc, outbound_trunk_id,
          phone_number, room_name, dispatch_created, sip_created,
          lkapi_closed, tel_calls, time_s, last_interaction_time,
          still_there_prompt_sent, is_agent_speaking, is_user_speaking,
          mon_pc, mon_wake, pending, spoken_for, hangups,
          prompts_since_reset, last_call, ret>>

fileVars == <<csv_file, json_file>>
httpVars == <<http_pc, http_i, http_summary>>
turnVars == <<current_speech_start_time, current_speech_end_time,
             current_response_start_time, current_response_end_time,
             vad_start_time, vad_end_time, tasks>>
telVars == <<tel_pc, outbound_trunk_id, phone_number, room_name,
            dispatch_created, sip_created, lkapi_closed, tel_calls>>
monVars == <<time_s, last_interaction_time, still_there_prompt_sent,
            is_agent_speaking, is_user_speaking, mon_pc, mon_wake, pending,
            spoken_for, hangups, prompts_since_reset>>
otherVars == <<turnVars, telVars, monVars>>
appVars == <<room, conversation_id, interaction_count, calls, call_base,
            session_ends, http_pc, http_i, http_summary, otherVars>>

\* ------------------------------------------------------------ values
None == <<>>
Some(v) == <<v>>
\* Python truthiness of an optional number: None and 0 are falsy.
Truthy(x) == x # None /\ x[1] # 0

Abs(x) == IF x < 0 THEN -x ELSE x

\* round(num / den, 3) for den > 0: the multiple of one millisecond nearest
\* to num / den, a tie going to the even millisecond.
RoundQ(num, den) ==
    LET step == den * Res
        q == num \div step
        r == num - q * step
    IN  IF 2 * r < step THEN q * Res
        ELSE IF 2 * r > step THEN (q + 1) * Res
        ELSE IF q % 2 = 0 THEN q * Res ELSE (q + 1) * Res

\* round(x, 3)
Round3(x) == RoundQ(x, 1)

RECURSIVE SumField(_, _)
\* sum(i[field] for i in self.interactions)
SumField(ints, field) ==
    IF ints = <<>> THEN 0
    ELSE ints[1][field] + SumField(Tail(ints), field)

\* Outcomes of an operation.
RetNone == [kind |-> "none"]
RetRaise == [kind |-> "raise"]
RetSummary(s) == [kind |-> "summary", val |-> s]
RetPath(p) == [kind |-> "path", val |-> p]


\* ------------------------------------------------- VoiceAgentMetrics
\* The eleven keys of a logged record (the CSV header, main.py 106-110).
fieldnames ==
    {"session_id", "timestamp", "interaction_id", "speech_start_time",
     "speech_end_time", "response_start_time", "agent_response_end_time",
     "user_speaking_time", "agent_reply_time", "user_response_waiting_time",
     "agent_idle_time_per_question"}

\* interaction_data['session_id'] = self.session_id
Stamped(data, sid) ==
    [f \in (DOMAIN data) \cup {"session_id"} |->
        IF f = "session_id" THEN sid ELSE data[f]]

\* Mutant: the idle time is assigned only where the caller logged 0.
IdleKeepsLogged(r) ==
    IF r.agent_idle_time_per_question # 0
    THEN r.agent_idle_time_per_question
    ELSE Round3(r.response_start_time - r.speech_end_time)

\* Mutant: the idle time is added to the stored value instead of assigned.
IdleAccumulated(r) ==
    r.agent_idle_time_per_question
        + Round3(r.response_start_time - r.speech_end_time)

\* round(interaction['response_start_time'] - interaction['speech_end_time'], 3)
IdleOf(r) == Round3(r.response_start_time - r.speech_end_time)

\* Mutant: the first record's waiting time is measured from its speech end.
WaitingFirstFromSpeechEnd(ints, i, sst) ==
    IF i = 1
    THEN Round3(ints[1].speech_end_time - sst[1])
    ELSE Round3(ints[i].speech_start_time - ints[i - 1].agent_response_end_time)

\* Mutant: a later record's waiting time is measured from the predecessor's
\* response start.
WaitingFromResponseStart(ints, i, sst) ==
    IF i = 1
    THEN Round3(ints[1].speech_start_time - sst[1])
    ELSE Round3(ints[i].speech_start_time - ints[i - 1].response_start_time)

\* The waiting time the loop assigns to record i (i counts from 1): from the
\* session start for the first record, from the predecessor's response end
\* for every other one.
WaitingOf(ints, i, sst) ==
    IF i = 1
    THEN Round3(ints[1].speech_start_time - sst[1])
    ELSE Round3(ints[i].speech_start_time - ints[i - 1].agent_response_end_time)

\* The loop raises TypeError on its first iteration when session_start_time
\* is None (float - None), after it has assigned the first record's idle time.
CalcRaises(ints, sst) == ints # <<>> /\ sst = None

\* Mutant: the loop also recomputes the two durations.
RecomputedAllFour(ints, sst) ==
    IF ints = <<>> THEN ints
    ELSE IF sst = None
    THEN [ints EXCEPT ![1].agent_idle_time_per_question = IdleOf(ints[1])]
    ELSE [i \in 1..Len(ints) |->
            [ints[i] EXCEPT
                !.agent_idle_time_per_question = IdleOf(ints[i]),
                !.user_response_waiting_time = WaitingOf(ints, i, sst),
                !.user_speaking_time =
                    ints[i].speech_end_time - ints[i].speech_start_time,
                !.agent_reply_time =
                    ints[i].agent_response_end_time
                        - ints[i].response_start_time]]

\* self.interactions after the per-interaction loop of calculate_metrics.
Recomputed(ints, sst) ==
    IF ints = <<>> THEN ints
    ELSE IF sst = None
    THEN [ints EXCEPT ![1].agent_idle_time_per_question = IdleOf(ints[1])]
    ELSE [i \in 1..Len(ints) |->
            [ints[i] EXCEPT
                !.agent_idle_time_per_question = IdleOf(ints[i]),
                !.user_response_waiting_time = WaitingOf(ints, i, sst)]]

\* 'total_X': round(total, 3)
TotalOf(total) == Round3(total)

\* Mutant: the average is truncated to whole milliseconds (floor division).
AverageFloor(total, n) == (total \div (n * Res)) * Res

\* 'average_X': round(total / num_questions, 3)
AverageOf(total, n) == RoundQ(total, n)

\* Mutant: the count is off by one.
NumQuestionsOffByOne(ints) == Len(ints) + 1

\* num_questions = len(self.interactions)
NumQuestions(ints) == Len(ints)

\* Mutant: the operands of the subtraction are exchanged.
SessionDurationReversed(sst, set) ==
    IF Truthy(set) THEN Round3(sst[1] - set[1]) ELSE 0

\* round(end - start, 3) if self.session_end_time else 0
SessionDuration(sst, set) ==
    IF Truthy(set) THEN Round3(set[1] - sst[1]) ELSE 0

\* The summary dict built from the recomputed records.
Summary(ints, sst, set, sid) ==
    LET ust == SumField(ints, "user_speaking_time")
        art == SumField(ints, "agent_reply_time")
        idle == SumField(ints, "agent_idle_time_per_question")
        n == NumQuestions(ints)
    IN  [session_id |-> sid,
         total_questions |-> n,
         total_user_speaking_time |-> TotalOf(ust),
         average_user_speaking_time |-> AverageOf(ust, n),
         total_agent_reply_time |-> TotalOf(art),
         average_agent_reply_time |-> AverageOf(art, n),
         total_agent_idle_time |-> TotalOf(idle),
         average_agent_idle_time |-> AverageOf(idle, n),
         total_voice_agent_response_time_during_start_end_call |->
             SessionDuration(sst, set),
         session_start_time |-> sst,
         session_end_time |-> set]

\* Mutant: the session start is used before the empty check.
CalcResultSubtractsFirst(ints, sst, set, sid) ==
    IF sst = None THEN RetRaise
    ELSE IF ints = <<>> THEN RetNone
    ELSE RetSummary(Summary(Recomputed(ints, sst), sst, set, sid))

\* What calculate_metrics returns or raises on the given recorder state.
CalcResult(ints, sst, set, sid) ==
    IF ints = <<>> THEN RetNone
    ELSE IF CalcRaises(ints, sst) THEN RetRaise
    ELSE RetSummary(Summary(Recomputed(ints, sst), sst, set, sid))

\* str(v) as csv.DictWriter writes a cell: the decimal text of v. Python's
\* text of a float reads back as the same float, so the text is represented
\* by the number it denotes, marked as text.
CsvCell(v) == [text |-> v]
\* float(cell) / the cell read back
CellValue(c) == c.text

\* One row of the CSV file: every column of fieldnames, as text.
CsvRow(r) == [f \in fieldnames |-> CsvCell(r[f])]

\* writer.writerows(self.interactions)
CsvContent(ints) == [i \in 1..Len(ints) |-> CsvRow(ints[i])]

\* data = {'session_info': summary, 'interactions': self.interactions}
JsonContent(summary, ints) ==
    [session_info |-> summary, interactions |-> ints]

\* os.path.join(self.logs_dir, f"voice_agent_metrics_{self.session_id}.csv")
CsvPath(sid) == <<"logs", sid, "csv">>
JsonPath(sid) == <<"logs", sid, "json">>

\* The k-th reading of the wall clock: 1, 2, 4, 7, ... The gaps grow so that
\* two readings can lie more than half a millisecond apart.
Tick(k) == 1 + (k * (k + 1)) \div 2

\* time.time(): a reading not before the last one (it may repeat it).
Clock == {t \in {Tick(k) : k \in 0..(MaxTime - 1)} : t >= now}

StartSession ==
    \E t \in Clock :
        /\ now' = t
        /\ session_start_time' = Some(t)
        /\ last_call' = "start_session"
        /\ ret' = RetNone
        /\ UNCHANGED <<session_end_time, interactions, session_id, fileVars, appVars>>

EndSession ==
    \E t \in Clock :
        /\ now' = t
        /\ session_end_time' = Some(t)
        /\ last_call' = "end_session"
        /\ ret' = RetNone
        /\ UNCHANGED <<session_start_time, interactions, session_id, fileVars, appVars>>

\* Mutant: the record is inserted at the head of the list.
LogInteractionAtHead(interaction_data) ==
    /\ Len(interactions) < MaxLen
    /\ interactions' = <<Stamped(interaction_data, session_id)>> \o interactions
    /\ last_call' = "log_interaction"
    /\ ret' = RetNone
    /\ UNCHANGED <<session_start_time, session_end_time, session_id, now, fileVars,
                   appVars>>

\* The logging.info call after the append reads interaction_data
\* ['interaction_id']: KeyError when the record has no such key.
LogRaises(interaction_data) == "interaction_id" \notin DOMAIN interaction_data

LogInteraction(interaction_data) ==
    /\ Len(interactions) < MaxLen
    /\ interactions' = Append(interactions, Stamped(interaction_data, session_id))
    /\ last_call' = "log_interaction"
    /\ ret' = IF LogRaises(interaction_data) THEN RetRaise ELSE RetNone
    /\ UNCHANGED <<session_start_time, session_end_time, session_id, now, fileVars,
                   appVars>>

CalculateMetrics ==
    /\ interactions' = Recomputed(interactions, session_start_time)
    /\ last_call' = "calculate_metrics"
    /\ ret' = CalcResult(interactions, session_start_time, session_end_time,
                         session_id)
    /\ UNCHANGED <<session_start_time, session_end_time, session_id, now, fileVars,
                   appVars>>

SaveCsv ==
    /\ IF interactions = <<>>
       THEN /\ ret' = RetNone
            /\ UNCHANGED csv_file
       ELSE /\ csv_file' = Some(CsvContent(interactions))
            /\ ret' = RetPath(CsvPath(session_id))
    /\ last_call' = "save_csv"
    /\ UNCHANGED <<session_start_time, session_end_time, interactions,
                   session_id, now, json_file, appVars>>

\* The summary as json.dump writes it: null for None.
JsonSummary(res) == IF res.kind = "summary" THEN Some(res.val) ELSE None

SaveJson ==
    LET res == CalcResult(interactions, session_start_time, session_end_time,
                          session_id)
        after == Recomputed(interactions, session_start_time)
    IN  /\ interactions' = after
        /\ IF res.kind = "raise"
           THEN /\ ret' = RetRaise
                /\ UNCHANGED json_file
           ELSE /\ json_file' = Some(JsonContent(JsonSummary(res), after))
                /\ ret' = RetPath(JsonPath(session_id))
        /\ last_call' = "save_json"
        /\ UNCHANGED <<session_start_time, session_end_time, session_id, now,
                       csv_file, appVars>>

\* The rows of the printed table: the four derived columns of every record.
TableRows(ints) ==
    [i \in 1..Len(ints) |->
        <<i, ints[i].user_response_waiting_time, ints[i].user_speaking_time,
          ints[i].agent_idle_time_per_question, ints[i].agent_reply_time>>]

PrintHumanReadableTable ==
    LET res == CalcResult(interactions, session_start_time, session_end_time,
                          session_id)
        after == Recomputed(interactions, session_start_time)
    IN  /\ interactions' = after
        /\ ret' = IF interactions = <<>> THEN [kind |-> "notice"]
                  ELSE IF res.kind = "raise" THEN RetRaise
                  ELSE [kind |-> "report", val |-> TableRows(after),
                        summary |-> res.val]
        /\ last_call' = "print_human_readable_table"
        /\ UNCHANGED <<session_start_time, session_end_time, session_id, now,
                       fileVars, appVars>>

\* ----------------------------------------------------------- callers
\* Values a caller passes as raw timestamps and as the four derived fields.
SpeechStarts == {0, 11}
SpeechEnds == {13}
ResponseStarts == {13, 16}
ResponseEnds == {5, 18}

\* The derived fields as Assistant.on_message logs them (main.py 286-289):
\* the two durations rounded, the two others 0.
AsOnMessage(ss, se, rs, are) ==
    [user_speaking_time |-> Round3(se - ss),
     agent_reply_time |-> Round3(are - rs),
     user_response_waiting_time |-> 0,
     agent_idle_time_per_question |-> 0]

\* Derived fields of a caller that logs other numbers there.
Arbitrary ==
    [user_speaking_time |-> 1,
     agent_reply_time |-> 6,
     user_response_waiting_time |-> 3,
     agent_idle_time_per_question |-> 5]

\* A caller's record: the ten keys it sets itself.
Turn(id, ss, se, rs, are, d) ==
    [timestamp |-> "iso",
     interaction_id |-> id,
     speech_start_time |-> ss,
     speech_end_time |-> se,
     response_start_time |-> rs,
     agent_response_end_time |-> are,
     user_speaking_time |-> d.user_speaking_time,
     agent_reply_time |-> d.agent_reply_time,
     user_response_waiting_time |-> d.user_response_waiting_time,
     agent_idle_time_per_question |-> d.agent_idle_time_per_question]

\* The records a caller logs as its next turn.
Turns(id) ==
    {Turn(id, ss, se, rs, are, AsOnMessage(ss, se, rs, are)) :
        ss \in SpeechStarts, se \in SpeechEnds, rs \in ResponseStarts,
        are \in ResponseEnds}
    \cup {Turn(id, ss, 13, 16, 18, Arbitrary) : ss \in SpeechStarts}

\* A turn of the call completes and its record is logged.
LogTurn ==
    /\ room = "open"
    /\ \E data \in Turns(Len(interactions) + 1) : LogInteraction(data)

\* The timing fields of an Assistant after __init__, no on_message invoked.
TurnInit ==
    /\ current_speech_start_time = <<>>
    /\ current_speech_end_time = <<>>
    /\ current_response_start_time = <<>>
    /\ current_response_end_time = <<>>
    /\ vad_start_time = <<>>
    /\ vad_end_time = <<>>
    /\ tasks = <<>>

\* call.py before make_outbound_call is invoked.
TelInit ==
    /\ tel_pc = "idle"
    /\ outbound_trunk_id = <<>>
    /\ phone_number = <<>>
    /\ room_name = <<>>
    /\ dispatch_created = FALSE
    /\ sip_created = FALSE
    /\ lkapi_closed = FALSE
    /\ tel_calls = 0

\* entrypoint of tests/inactivity.py after its state variables are set
\* (lines 34-37), before it connects.
MonInit ==
    /\ time_s = 0
    /\ last_interaction_time = 0
    /\ still_there_prompt_sent = FALSE
    /\ is_agent_speaking = FALSE
    /\ is_user_speaking = FALSE
    /\ mon_pc = "waiting"
    /\ mon_wake = 0
    /\ pending = 0
    /\ spoken_for = 0
    /\ hangups = 0
    /\ prompts_since_reset = 0

\* The parts of the program outside the recorder, at rest.
OtherInit == TurnInit /\ TelInit /\ MonInit

\* State after VoiceAgentMetrics() (main.py 25-31, 356).
Init ==
    /\ session_start_time = None
    /\ session_end_time = None
    /\ interactions = <<>>
    /\ session_id = "session_0"
    /\ now = 1
    /\ csv_file = None
    /\ json_file = None
    /\ room = "open"
    /\ conversation_id = None
    /\ interaction_count = 0
    /\ calls = 0
    /\ call_base = 0
    /\ session_ends = 0
    /\ http_pc = "idle"
    /\ http_i = 0
    /\ http_summary = <<>>
    /\ OtherInit
    /\ last_call = "init"
    /\ ret = RetNone

\* The recorder under any order of its metric operations.
Next ==
    \/ StartSession
    \/ EndSession
    \/ LogTurn
    \/ CalculateMetrics
    \/ PrintHumanReadableTable

Spec == Init /\ [][Next]_vars


\* --------------------------------------------- exports and endpoints
\* The statements end_call and cleanup share (main.py 332-344, 397-409), run
\* at clock reading t: end_session, save_csv, save_json, the printed table.
\* An exception of save_json leaves the handler before the table is printed.
EndAndExport(t) ==
    LET set == Some(t)
        csv == IF interactions = <<>> THEN csv_file
               ELSE Some(CsvContent(interactions))
        csv_ret == IF interactions = <<>> THEN RetNone
                   ELSE RetPath(CsvPath(session_id))
        res == CalcResult(interactions, session_start_time, set, session_id)
        after == Recomputed(interactions, session_start_time)
        raised == res.kind = "raise"
        json == IF raised THEN json_file
                ELSE Some(JsonContent(JsonSummary(res), after))
        json_ret == IF raised THEN RetRaise ELSE RetPath(JsonPath(session_id))
    IN  [set |-> set, csv |-> csv, csv_ret |-> csv_ret, json |-> json,
         json_ret |-> json_ret, ints |-> after, raised |-> raised,
         files_saved |-> csv_ret.kind = "path" /\ json_ret.kind = "path"]

\* hangup_call(): the room of the call is deleted.
HangupCall == "deleted"

\* Assistant.end_call: the explicit hang-up.
EndCall ==
    /\ room = "open"
    /\ \E t \in Clock :
        LET e == EndAndExport(t)
        IN  /\ now' = t
            /\ session_end_time' = e.set
            /\ csv_file' = e.csv
            /\ json_file' = e.json
            /\ interactions' = e.ints
            /\ room' = IF e.raised THEN room ELSE HangupCall
            /\ ret' = IF e.raised THEN RetRaise
                      ELSE [kind |-> "ended", files_saved |-> e.files_saved]
    /\ last_call' = "end_call"
    /\ UNCHANGED <<session_start_time, session_id, conversation_id,
                   interaction_count, calls, call_base, session_ends,
                   httpVars, otherVars>>

\* entrypoint.cleanup: the shutdown callback.
Cleanup ==
    /\ \E t \in Clock :
        LET e == EndAndExport(t)
        IN  /\ now' = t
            /\ session_end_time' = e.set
            /\ csv_file' = e.csv
            /\ json_file' = e.json
            /\ interactions' = e.ints
            /\ ret' = IF e.raised THEN RetRaise
                      ELSE [kind |-> "ended", files_saved |-> e.files_saved]
    /\ last_call' = "cleanup"
    /\ UNCHANGED <<session_start_time, session_id, appVars>>

\* What an endpoint answers given what the export returned.
FileOrError(r) ==
    IF r.kind = "path" THEN [kind |-> "file_response", val |-> r.val]
    ELSE IF r.kind = "raise" THEN RetRaise
    ELSE [kind |-> "error", val |-> "No metrics available"]

\* GET /download-csv
DownloadCsv ==
    /\ IF interactions = <<>>
       THEN /\ ret' = FileOrError(RetNone)
            /\ UNCHANGED csv_file
       ELSE /\ csv_file' = Some(CsvContent(interactions))
            /\ ret' = FileOrError(RetPath(CsvPath(session_id)))
    /\ last_call' = "download_csv"
    /\ UNCHANGED <<session_start_time, session_end_time, interactions,
                   session_id, now, json_file, appVars>>

\* GET /download-json
DownloadJson ==
    LET res == CalcResult(interactions, session_start_time, session_end_time,
                          session_id)
        after == Recomputed(interactions, session_start_time)
    IN  /\ interactions' = after
        /\ IF res.kind = "raise"
           THEN /\ ret' = FileOrError(RetRaise)
                /\ UNCHANGED json_file
           ELSE /\ json_file' = Some(JsonContent(JsonSummary(res), after))
                /\ ret' = FileOrError(RetPath(JsonPath(session_id)))
        /\ last_call' = "download_json"
        /\ UNCHANGED <<session_start_time, session_end_time, session_id, now,
                       csv_file, appVars>>

\* GET /metrics
GetMetrics ==
    LET res == CalcResult(interactions, session_start_time, session_end_time,
                          session_id)
        after == Recomputed(interactions, session_start_time)
    IN  /\ interactions' = after
        /\ ret' = IF res.kind = "raise" THEN RetRaise
                  ELSE [kind |-> "metrics", summary |-> JsonSummary(res),
                        interactions |-> after]
        /\ last_call' = "get_metrics"
        /\ UNCHANGED <<session_start_time, session_end_time, session_id, now,
                       fileVars, appVars>>

\* The turns logged while the exports are exercised: as on_message logs them,
\* and one with other numbers in the derived fields.
ExportTurns(id) ==
    {Turn(id, ss, 13, 13, 18, AsOnMessage(ss, 13, 13, 18)) : ss \in SpeechStarts}
    \cup {Turn(id, 11, 13, 16, 18, Arbitrary)}

LogExportTurn ==
    /\ room = "open"
    /\ \E data \in ExportTurns(Len(interactions) + 1) : LogInteraction(data)

\* One call's recorder with its exports, the hang-up, the shutdown callback
\* and the HTTP endpoints, in any order.
NextExport ==
    \/ StartSession
    \/ LogExportTurn
    \/ CalculateMetrics
    \/ SaveCsv
    \/ SaveJson
    \/ EndCall
    \/ Cleanup
    \/ DownloadCsv
    \/ DownloadJson
    \/ GetMetrics

SpecExport == Init /\ [][NextExport]_vars


\* ------------------------------------------------------------ claims
\* w is num / den rounded to 3 decimals: a whole number of milliseconds, at
\* most half a millisecond from num / den, the even one of two equally near.
NearestMs(w, num, den) ==
    /\ w % Res = 0
    /\ 2 * Abs(den * w - num) <= den * Res
    /\ (2 * Abs(den * w - num) = den * Res => (w \div Res) % 2 = 0)

\* calculate_metrics has just returned a summary.
CalculatedSummary == last_call = "calculate_metrics" /\ ret.kind = "summary"

\* C1: after N >= 1 records were logged on a started session,
\* calculate_metrics returns a summary whose total_questions is N.
C1_TotalQuestions ==
    (/\ last_call = "calculate_metrics"
     /\ session_start_time # None
     /\ Len(interactions) >= 1)
    => (ret.kind = "summary" /\ ret.val.total_questions = Len(interactions))

C1_Witness ==
    /\ CalculatedSummary
    /\ Len(interactions) = 2
    /\ ret.val.total_questions = 2

\* C3: after calculate_metrics the first record's waiting time is its
\* speech start minus the session start, rounded to 3 decimals.
C3_FirstWaitingFromSessionStart ==
    CalculatedSummary =>
        NearestMs(interactions[1].user_response_waiting_time,
                  interactions[1].speech_start_time - session_start_time[1], 1)

C3_Witness ==
    /\ CalculatedSummary
    /\ interactions[1].speech_start_time = 11
    /\ session_start_time = Some(2)
    /\ interactions[1].user_response_waiting_time = 8

\* C4: after calculate_metrics every record after the first has as waiting
\* time its speech start minus the response end of the record logged just
\* before it, rounded to 3 decimals.
C4_LaterWaitingFromPredecessor ==
    CalculatedSummary =>
        \A i \in 2..Len(interactions) :
            NearestMs(interactions[i].user_response_waiting_time,
                      interactions[i].speech_start_time
                          - interactions[i - 1].agent_response_end_time, 1)

C4_Witness ==
    /\ CalculatedSummary
    /\ Len(interactions) >= 2
    /\ interactions[2].speech_start_time = 11
    /\ interactions[1].agent_response_end_time = 5
    /\ interactions[2].user_response_waiting_time = 8

\* C5: after calculate_metrics every record's idle time is its response
\* start minus its speech end, rounded to 3 decimals, whatever the caller
\* logged in that field.
C5_IdleFromTimestamps ==
    CalculatedSummary =>
        \A i \in 1..Len(interactions) :
            NearestMs(interactions[i].agent_idle_time_per_question,
                      interactions[i].response_start_time
                          - interactions[i].speech_end_time, 1)

\* A record logged with idle time 5 (the one whose speaking time is 1) holds
\* the recomputed idle time.
C5_Witness ==
    /\ CalculatedSummary
    /\ \E i \in 1..Len(interactions) :
        /\ interactions[i].user_speaking_time = Arbitrary.user_speaking_time
        /\ interactions[i].response_start_time
               - interactions[i].speech_end_time = 3
        /\ interactions[i].agent_idle_time_per_question = 4

\* C6 as claimed: after the metrics pass every record's speaking time is
\* speech end minus speech start and its reply time is response end minus
\* response start, whatever the caller logged there.
C6_DurationsRecomputed ==
    CalculatedSummary =>
        \A i \in 1..Len(interactions) :
            /\ interactions[i].user_speaking_time =
                   interactions[i].speech_end_time
                       - interactions[i].speech_start_time
            /\ interactions[i].agent_reply_time =
                   interactions[i].agent_response_end_time
                       - interactions[i].response_start_time

\* C6 amended: no operation changes the speaking time or the reply time of a
\* logged record; after the metrics pass both are what the caller logged.
C6_DurationsKeptAsLogged ==
    [][\A i \in 1..Len(interactions) :
          /\ Len(interactions') >= i
          /\ interactions'[i].user_speaking_time =
                 interactions[i].user_speaking_time
          /\ interactions'[i].agent_reply_time =
                 interactions[i].agent_reply_time]_vars

C6_Witness ==
    /\ CalculatedSummary
    /\ \E i \in 1..Len(interactions) :
        /\ interactions[i].user_speaking_time = 1
        /\ interactions[i].speech_end_time
               - interactions[i].speech_start_time = 13
        /\ interactions[i].agent_reply_time = 6
        /\ interactions[i].agent_response_end_time
               - interactions[i].response_start_time = 2

\* C7: a calculate_metrics that directly follows a calculate_metrics returns
\* the same summary and leaves every record as it was.
C7_CalculateIdempotent ==
    [][(last_call = "calculate_metrics" /\ last_call' = "calculate_metrics")
          => (ret' = ret /\ interactions' = interactions)]_vars

C7_Witness ==
    /\ CalculatedSummary
    /\ Len(interactions) = 2
    /\ interactions[2].agent_idle_time_per_question # 0
    /\ interactions[2].user_response_waiting_time # 0

\* The three (average, total, field) triples of a summary.
Averaged(s) ==
    {<<s.average_user_speaking_time, s.total_user_speaking_time,
       "user_speaking_time">>,
     <<s.average_agent_reply_time, s.total_agent_reply_time,
       "agent_reply_time">>,
     <<s.average_agent_idle_time, s.total_agent_idle_time,
       "agent_idle_time_per_question">>}

\* C8 as claimed: each reported average is the reported total divided by N.
C8_AverageIsTotalOverN ==
    CalculatedSummary =>
        \A a \in Averaged(ret.val) : Len(interactions) * a[1] = a[2]

\* C8 amended: each reported average is the sum of the field over the
\* records divided by N, rounded to 3 decimals; N times the average is within
\* (N + 1) / 2 milliseconds of the reported (rounded) total.
C8_AverageIsRoundedMean ==
    CalculatedSummary =>
        \A a \in Averaged(ret.val) :
            /\ NearestMs(a[1], SumField(interactions, a[3]), Len(interactions))
            /\ NearestMs(a[2], SumField(interactions, a[3]), 1)
            /\ 2 * Abs(Len(interactions) * a[1] - a[2])
                   <= (Len(interactions) + 1) * Res

C8_Witness ==
    /\ CalculatedSummary
    /\ Len(interactions) = 2
    /\ 2 * ret.val.average_user_speaking_time
           # ret.val.total_user_speaking_time

\* C9: calculate_metrics on a recorder without records returns None, does not
\* raise, and leaves the session times, the session id and the sequence as
\* they were, started or not.
C9_EmptyCalculateReturnsNone ==
    [][(last_call' = "calculate_metrics" /\ interactions = <<>>)
          => (/\ ret'.kind = "none"
              /\ UNCHANGED <<session_start_time, session_end_time,
                             session_id, interactions>>)]_vars

C9_Witness ==
    /\ last_call = "calculate_metrics"
    /\ interactions = <<>>
    /\ session_start_time = None
    /\ ret.kind = "none"

\* C2 as claimed: the CSV file and the JSON file written by one hang-up or
\* shutdown (save_csv, then save_json) hold the same number of turns and, turn
\* by turn, the same waiting time and the same idle time.
C2_ExportsAgree ==
    (/\ last_call \in {"end_call", "cleanup"}
     /\ ret.kind = "ended"
     /\ interactions # <<>>)
    => LET rows == csv_file[1]
           doc == json_file[1].interactions
       IN  /\ Len(rows) = Len(doc)
           /\ \A i \in 1..Len(rows) :
               /\ CellValue(rows[i].user_response_waiting_time)
                      = doc[i].user_response_waiting_time
               /\ CellValue(rows[i].agent_idle_time_per_question)
                      = doc[i].agent_idle_time_per_question

\* C10 as claimed: without records no export writes a file, save_csv and
\* save_json return None and both download endpoints answer with the error.
C10_EmptyExportsWriteNothing ==
    interactions = <<>> =>
        /\ csv_file = None
        /\ json_file = None
        /\ (last_call \in {"save_csv", "save_json"} => ret.kind = "none")
        /\ (last_call \in {"download_csv", "download_json"}
               => ret.kind = "error")


\* C11: once end_session has run on a started session, the summary's
\* total_voice_agent_response_time_during_start_end_call is the time of the
\* last end_session minus the time of the last start_session, rounded to 3
\* decimals.
C11_DurationIsEndMinusStart ==
    (CalculatedSummary /\ session_end_time # None) =>
        NearestMs(ret.val.total_voice_agent_response_time_during_start_end_call,
                  session_end_time[1] - session_start_time[1], 1)

C11_Witness ==
    /\ CalculatedSummary
    /\ session_start_time = Some(1)
    /\ session_end_time = Some(4)
    /\ ret.val.total_voice_agent_response_time_during_start_end_call = 4


\* What identifies a logged record and what no operation recomputes.
Logged(r) ==
    <<r.session_id, r.interaction_id, r.speech_start_time, r.speech_end_time,
      r.response_start_time, r.agent_response_end_time, r.user_speaking_time,
      r.agent_reply_time>>

\* C13: log_interaction appends the record, stamped with the recorder's
\* session id, and leaves the earlier records and the session times alone; no
\* operation removes or reorders records, so the sequence is always in
\* insertion order (the i-th record is the i-th turn logged) and every record
\* carries the recorder's session id.
C13_AppendOnly ==
    /\ [](\A i \in 1..Len(interactions) :
            /\ interactions[i].session_id = session_id
            /\ interactions[i].interaction_id = i)
    /\ [][/\ Len(interactions') >= Len(interactions)
          /\ \A i \in 1..Len(interactions) :
                Logged(interactions'[i]) = Logged(interactions[i])
          /\ (last_call' = "log_interaction" =>
                /\ Len(interactions') = Len(interactions) + 1
                /\ SubSeq(interactions', 1, Len(interactions)) = interactions
                /\ interactions'[Len(interactions')].session_id = session_id
                /\ UNCHANGED <<session_start_time, session_end_time>>)]_vars

\* A second record was just logged behind one whose derived fields were
\* already recomputed, on a session that has started and ended.
C13_Witness ==
    /\ last_call = "log_interaction"
    /\ Len(interactions) = 2
    /\ interactions[1].user_response_waiting_time = 8
    /\ session_start_time # None
    /\ session_end_time # None


\* ------------------------------------------- records lacking a field
\* del data[key]: a caller's record without one of the expected keys.
Without(data, key) == [f \in (DOMAIN data) \ {key} |-> data[f]]

\* Records as on_message builds them, and the same without interaction_id.
LooseTurns(id) ==
    LET full == {Turn(id, ss, 13, 13, 18, AsOnMessage(ss, 13, 13, 18)) :
                    ss \in SpeechStarts}
    IN  full \cup {Without(data, "interaction_id") : data \in full}

LogLooseTurn ==
    /\ room = "open"
    /\ \E data \in LooseTurns(Len(interactions) + 1) : LogInteraction(data)

\* The recorder fed by a caller that may leave interaction_id out.
NextLoose ==
    \/ StartSession
    \/ EndSession
    \/ LogLooseTurn
    \/ CalculateMetrics
    \/ PrintHumanReadableTable

SpecLoose == Init /\ [][NextLoose]_vars

\* C19 as claimed: log_interaction returns normally for every record, one
\* without interaction_id included; it never reports a failure for a record
\* it has appended.
C19_LogAlwaysSucceeds ==
    last_call = "log_interaction" => ret.kind = "none"


\* ------------------------------------------------ the application
\* n milliseconds in clock units.
Ms(n) == n * Res

\* f"{prefix}{conversation_id}_{interaction_count}" and f"demo_1_{...}": the
\* text of an interaction id, by its parts.
IdText(prefix, conv, count) == [prefix |-> prefix, conv |-> conv, count |-> count]

\* The two records _add_demo_interactions logs (main.py 214-239).
DemoInteractions(conv, current_time) ==
    <<[timestamp |-> "iso",
       interaction_id |-> IdText("demo_1_", conv, 0),
       speech_start_time |-> current_time,
       speech_end_time |-> current_time + Ms(2500),
       response_start_time |-> current_time + Ms(2500),
       agent_response_end_time |-> current_time + Ms(5000),
       user_speaking_time |-> Ms(2500),
       agent_reply_time |-> Ms(2500),
       user_response_waiting_time |-> 0,
       agent_idle_time_per_question |-> 0],
      [timestamp |-> "iso",
       interaction_id |-> IdText("demo_2_", conv, 0),
       speech_start_time |-> current_time + Ms(7000),
       speech_end_time |-> current_time + Ms(10000),
       response_start_time |-> current_time + Ms(10000),
       agent_response_end_time |-> current_time + Ms(13500),
       user_speaking_time |-> Ms(3000),
       agent_reply_time |-> Ms(3500),
       user_response_waiting_time |-> Ms(2000),
       agent_idle_time_per_question |-> 0]>>

\* max(len(speech_text) * 0.1, 1.0) seconds: a text of at most ten
\* characters, and one of fifteen.
SpeechDurations == {Ms(1000), Ms(1500)}

\* The record on_message logs for a turn that began at clock reading
\* current_time and whose reply ended at response_end (main.py 252-290).
MessageInteraction(conv, count, current_time, duration, response_end) ==
    Turn(IdText("", conv, count), current_time - duration, current_time,
         current_time, response_end,
         AsOnMessage(current_time - duration, current_time, current_time,
                     response_end))

\* State of the process after import: the global recorder, no job yet.
InitApp ==
    /\ session_start_time = None
    /\ session_end_time = None
    /\ interactions = <<>>
    /\ session_id = "session_0"
    /\ now = 1
    /\ csv_file = None
    /\ json_file = None
    /\ room = "none"
    /\ conversation_id = None
    /\ interaction_count = 0
    /\ calls = 0
    /\ call_base = 0
    /\ session_ends = 0
    /\ http_pc = "idle"
    /\ http_i = 0
    /\ http_summary = <<>>
    /\ OtherInit
    /\ last_call = "init"
    /\ ret = RetNone

\* Mutant: start_session leaves the start time unset.
StartedAtUnset(t) == None

\* self.session_start_time = time.time() (main.py 35), as entrypoint's call
\* of start_session leaves it.
StartedAt(t) == Some(t)

\* entrypoint: start_session, Assistant(metrics=voice_metrics) with its demo
\* interactions, the session started on the room, cleanup registered.
Entrypoint ==
    /\ room = "none"
    /\ calls < MaxCalls
    /\ \E t1 \in Clock :
        \E t2 \in {t \in Clock : t >= t1} :
            \E t3 \in {t \in Clock : t >= t2} :
                LET demo == DemoInteractions(t2, t3)
                IN  /\ session_start_time' = StartedAt(t1)
                    /\ conversation_id' = Some(t2)
                    /\ interactions' =
                           Append(Append(interactions,
                                         Stamped(demo[1], session_id)),
                                  Stamped(demo[2], session_id))
                    /\ now' = t3
    /\ interaction_count' = 0
    /\ calls' = calls + 1
    /\ call_base' = Len(interactions)
    /\ session_ends' = 0
    /\ room' = "open"
    /\ last_call' = "entrypoint"
    /\ ret' = RetNone
    /\ UNCHANGED <<session_end_time, session_id, fileVars, httpVars, otherVars>>

\* Assistant.on_message, from the count increment to the logged record.
OnMessage ==
    /\ room = "open"
    /\ interaction_count < MaxTurns
    /\ \E t \in Clock :
        \E te \in {u \in Clock : u >= t} :
            \E d \in SpeechDurations :
                /\ interactions' =
                       Append(interactions,
                              Stamped(MessageInteraction(conversation_id[1],
                                          interaction_count + 1, t, d, te),
                                      session_id))
                /\ now' = te
    /\ interaction_count' = interaction_count + 1
    /\ last_call' = "on_message"
    /\ ret' = RetNone
    /\ UNCHANGED <<session_start_time, session_end_time, session_id, fileVars,
                   room, conversation_id, calls, call_base, session_ends,
                   httpVars, otherVars>>

\* Assistant.end_call run by the call's agent.
AppEndCall ==
    /\ room = "open"
    /\ \E t \in Clock :
        LET e == EndAndExport(t)
        IN  /\ now' = t
            /\ session_end_time' = e.set
            /\ csv_file' = e.csv
            /\ json_file' = e.json
            /\ interactions' = e.ints
            /\ room' = IF e.raised THEN room ELSE HangupCall
            /\ ret' = IF e.raised THEN RetRaise
                      ELSE [kind |-> "ended", files_saved |-> e.files_saved]
    /\ session_ends' = session_ends + 1
    /\ last_call' = "end_call"
    /\ UNCHANGED <<session_start_time, session_id, conversation_id,
                   interaction_count, calls, call_base, httpVars, otherVars>>

\* The job shuts down (the room was deleted, or the caller left): the
\* registered cleanup callback runs and the job is over.
AppShutdown ==
    /\ room \in {"open", "deleted"}
    /\ \E t \in Clock :
        LET e == EndAndExport(t)
        IN  /\ now' = t
            /\ session_end_time' = e.set
            /\ csv_file' = e.csv
            /\ json_file' = e.json
            /\ interactions' = e.ints
            /\ ret' = IF e.raised THEN RetRaise
                      ELSE [kind |-> "ended", files_saved |-> e.files_saved]
    /\ session_ends' = session_ends + 1
    /\ room' = "none"
    /\ last_call' = "cleanup"
    /\ UNCHANGED <<session_start_time, session_id, conversation_id,
                   interaction_count, calls, call_base, httpVars, otherVars>>

\* One process: calls one after the other, each with its turns, its hang-up
\* and its shutdown, and the HTTP endpoints at any time.
NextApp ==
    \/ Entrypoint
    \/ OnMessage
    \/ AppEndCall
    \/ AppShutdown
    \/ GetMetrics
    \/ DownloadJson

SpecApp == InitApp /\ [][NextApp]_vars

\* ------------------------------------------------ the server thread
\* uvicorn runs in a thread of its own (main.py 444-451): a request handled
\* there proceeds between any two steps of the agent's flow.  GET /metrics is
\* followed here through calculate_metrics one loop iteration at a time.

\* get_metrics is entered: calculate_metrics returns None at once for an
\* empty sequence, else its loop starts at the first record.
HttpGetMetrics ==
    /\ http_pc = "idle"
    /\ IF interactions = <<>>
       THEN /\ ret' = [kind |-> "metrics", summary |-> None,
                       interactions |-> interactions]
            /\ last_call' = "get_metrics"
            /\ UNCHANGED httpVars
       ELSE /\ http_pc' = "loop"
            /\ http_i' = 1
            /\ UNCHANGED <<http_summary, last_call, ret>>
    /\ UNCHANGED <<session_start_time, session_end_time, interactions,
                   session_id, now, fileVars, room, conversation_id,
                   interaction_count, calls, call_base, session_ends,
                   otherVars>>

\* One iteration of the loop over enumerate(self.interactions): the list
\* iterator yields the record at its index as long as the list, as it is
\* now, has one there.
HttpLoopStep ==
    /\ http_pc = "loop"
    /\ http_i <= Len(interactions)
    /\ IF session_start_time = None /\ http_i = 1
       THEN /\ interactions' =
                   [interactions EXCEPT
                       ![1].agent_idle_time_per_question =
                           IdleOf(interactions[1])]
            /\ http_pc' = "idle"
            /\ http_i' = 0
            /\ ret' = RetRaise
            /\ last_call' = "get_metrics"
       ELSE /\ interactions' =
                   [interactions EXCEPT
                       ![http_i].agent_idle_time_per_question =
                           IdleOf(interactions[http_i]),
                       ![http_i].user_response_waiting_time =
                           WaitingOf(interactions, http_i,
                                     session_start_time)]
            /\ http_i' = http_i + 1
            /\ UNCHANGED <<http_pc, last_call, ret>>
    /\ UNCHANGED <<session_start_time, session_end_time, session_id, now,
                   fileVars, room, conversation_id, interaction_count, calls,
                   call_base, session_ends, otherVars, http_summary>>

\* The iterator is exhausted: the summary is built from the sequence as it
\* is now and calculate_metrics returns it to get_metrics.
HttpSummary ==
    /\ http_pc = "loop"
    /\ http_i > Len(interactions)
    /\ http_summary' = Some(Summary(interactions, session_start_time,
                                    session_end_time, session_id))
    /\ http_pc' = "respond"
    /\ http_i' = 0
    /\ UNCHANGED <<session_start_time, session_end_time, interactions,
                   session_id, now, fileVars, room, conversation_id,
                   interaction_count, calls, call_base, session_ends,
                   otherVars, last_call, ret>>

\* get_metrics builds its response: the summary it holds and
\* voice_metrics.interactions as it is when the response is made.
HttpReturn ==
    /\ http_pc = "respond"
    /\ ret' = [kind |-> "metrics", summary |-> http_summary,
               interactions |-> interactions]
    /\ http_pc' = "idle"
    /\ http_summary' = None
    /\ last_call' = "get_metrics"
    /\ UNCHANGED <<session_start_time, session_end_time, interactions,
                   session_id, now, fileVars, room, conversation_id,
                   interaction_count, calls, call_base, session_ends,
                   otherVars, http_i>>

\* The agent's flow and the server thread side by side.
NextThreads ==
    \/ Entrypoint
    \/ OnMessage
    \/ AppShutdown
    \/ HttpGetMetrics
    \/ HttpLoopStep
    \/ HttpSummary
    \/ HttpReturn

SpecThreads == InitApp /\ [][NextThreads]_vars


\* A call is in progress and end_session has not run since its entrypoint.
StartedNotEnded == room = "open" /\ session_ends = 0

\* C12 as claimed: whenever a summary or an export is produced for a call that
\* was started and has not ended, the session has no end time and the summary's
\* total duration is 0, for a later call of the same process too.
C12_NoEndTimeBeforeEnd ==
    StartedNotEnded =>
        /\ (last_call \in {"get_metrics", "download_json"} =>
               session_end_time = None)
        /\ (last_call = "get_metrics" /\ ret.kind = "metrics" =>
               /\ ret.summary[1].session_end_time = None
               /\ ret.summary[1]
                      .total_voice_agent_response_time_during_start_end_call = 0)
        /\ (last_call = "download_json" /\ ret.kind = "file_response" =>
               /\ json_file[1].session_info[1].session_end_time = None
               /\ json_file[1].session_info[1]
                      .total_voice_agent_response_time_during_start_end_call = 0)

\* C14 as claimed: what is produced for a call holds only the records logged
\* during that call: none logged before its entrypoint began.
C14_OnlyThisCallsRecords ==
    (room = "open" /\ last_call = "get_metrics" /\ ret.kind = "metrics") =>
        /\ call_base = 0
        /\ ret.summary[1].total_questions = Len(interactions) - call_base
        /\ Len(ret.interactions) = Len(interactions) - call_base

\* C15 as claimed: during a call the records logged since its entrypoint are
\* as many as the on_message turns completed.
C15_OneRecordPerTurn ==
    room = "open" => Len(interactions) - call_base = interaction_count

\* C16 as claimed: end_session runs at most once per call.
C16_EndSessionAtMostOnce == session_ends <= 1

\* C17 as claimed: when cleanup runs right after end_call, the two files hold
\* after it what they held before it.
C17_SecondExportIsDuplicate ==
    [][(last_call = "end_call" /\ last_call' = "cleanup")
          => (csv_file' = csv_file /\ json_file' = json_file)]_vars

\* C20 as claimed: the interaction ids of the records are pairwise distinct.
C20_InteractionIdsDistinct ==
    \A i, j \in 1..Len(interactions) :
        i # j => interactions[i].interaction_id # interactions[j].interaction_id


\* C18 as claimed: no two recorder operations execute concurrently: while
\* calculate_metrics of a GET /metrics request is in the middle of its loop,
\* no step appends a record, ends or starts the session or writes a file.
C18_NoConcurrentOperations ==
    [][http_pc = "loop" =>
          /\ Len(interactions') = Len(interactions)
          /\ session_start_time' = session_start_time
          /\ session_end_time' = session_end_time
          /\ csv_file' = csv_file
          /\ json_file' = json_file]_vars


\* C21: in the application flow a recorder that holds a record has its
\* session start set, and no summary, export or /metrics request raises for
\* an unset start, in any order of entrypoint, turns, hang-ups and requests.
C21_StartSetBeforeRecords ==
    /\ interactions # <<>> => session_start_time # None
    /\ last_call \in {"get_metrics", "download_json", "end_call", "cleanup"}
           => ret.kind # "raise"

\* A /metrics request answered with a summary of the records of a call.
C21_Witness ==
    /\ last_call = "get_metrics"
    /\ ret.kind = "metrics"
    /\ ret.summary # None
    /\ interactions # <<>>
    /\ session_start_time # None


\* ------------------------------------------------ on_message, await by await
\* Assistant and EnhancedAssistant of src/agent/livekit_agents.py.  on_message
\* runs from its entry to `await ctx.session.speak(...)` without yielding
\* (run_llm never suspends), and from the return of speak to its end.

\* on_message invocations followed.
MaxTasks == 2

\* len(speech_text) * 0.05 seconds: an empty text, and one of twenty
\* characters.
EstimatedDurations == {0, Ms(1000)}

\* An EnhancedAssistant constructed on a fresh recorder.
InitTurns ==
    /\ session_start_time = None
    /\ session_end_time = None
    /\ interactions = <<>>
    /\ session_id = "session_0"
    /\ now = 1
    /\ csv_file = None
    /\ json_file = None
    /\ room = "open"
    /\ conversation_id = Some(1)
    /\ interaction_count = 0
    /\ calls = 0
    /\ call_base = 0
    /\ session_ends = 0
    /\ http_pc = "idle"
    /\ http_i = 0
    /\ http_summary = <<>>
    /\ OtherInit
    /\ last_call = "init"
    /\ ret = RetNone

\* What on_message leaves alone.
TurnFrame ==
    UNCHANGED <<session_start_time, session_end_time, session_id, fileVars,
                room, conversation_id, calls, call_base, session_ends,
                httpVars, telVars, monVars>>

\* EnhancedAssistant.on_vad_start
OnVadStart ==
    /\ \E t \in Clock :
        /\ now' = t
        /\ vad_start_time' = Some(t)
        /\ current_speech_start_time' = Some(t)
    /\ last_call' = "on_vad_start"
    /\ ret' = RetNone
    /\ TurnFrame
    /\ UNCHANGED <<interactions, interaction_count, current_speech_end_time,
                   current_response_start_time, current_response_end_time,
                   vad_end_time, tasks>>

\* EnhancedAssistant.on_vad_end
OnVadEnd ==
    /\ \E t \in Clock :
        /\ now' = t
        /\ vad_end_time' = Some(t)
        /\ current_speech_end_time' = Some(t)
    /\ last_call' = "on_vad_end"
    /\ ret' = RetNone
    /\ TurnFrame
    /\ UNCHANGED <<interactions, interaction_count, current_speech_start_time,
                   current_response_start_time, current_response_end_time,
                   vad_start_time, tasks>>

\* `if self.vad_start_time and self.vad_end_time`
VadAvailable == Truthy(vad_start_time) /\ Truthy(vad_end_time)

\* The speech times of the Assistant after the two assignments of
\* Assistant.on_message (lines 53 and 60), given what
\* EnhancedAssistant.on_message had put there (lines 179-181): both are
\* assigned anew from the clock reading and the estimate.
SpeechTimesAfterEntry(fromVad, t, d) == [start |-> Some(t - d), end |-> Some(t)]

\* EnhancedAssistant.on_message from its entry to the await of speak.
MessageBegin ==
    /\ Len(tasks) < MaxTasks
    /\ \E t1 \in Clock :
        \E t2 \in {t \in Clock : t >= t1} :
            \E d \in EstimatedDurations :
                LET fromVad ==
                        IF VadAvailable
                        THEN [start |-> vad_start_time, end |-> vad_end_time]
                        ELSE [start |-> current_speech_start_time,
                              end |-> current_speech_end_time]
                    st == SpeechTimesAfterEntry(fromVad, t1, d)
                IN  /\ current_speech_start_time' = st.start
                    /\ current_speech_end_time' = st.end
                    /\ current_response_start_time' = Some(t2)
                    /\ now' = t2
                    /\ tasks' =
                           Append(tasks,
                               [pc |-> "speak",
                                interaction_id |->
                                    IdText("", conversation_id[1],
                                           interaction_count + 1),
                                vad |-> IF VadAvailable
                                        THEN Some(<<vad_start_time[1],
                                                    vad_end_time[1]>>)
                                        ELSE None,
                                speech_start |-> t1 - d,
                                speech_end |-> t1,
                                response_start |-> t2,
                                response_end |-> 0,
                                logged |-> 0])
    /\ interaction_count' = interaction_count + 1
    /\ last_call' = "on_message_entry"
    /\ ret' = RetNone
    /\ TurnFrame
    /\ UNCHANGED <<interactions, current_response_end_time, vad_start_time,
                   vad_end_time>>

\* on_message of invocation k from the return of speak to its end: the
\* record is built from the Assistant's fields as they are then.
MessageFinish(k) ==
    /\ tasks[k].pc = "speak"
    /\ \E t \in Clock :
        LET ss == current_speech_start_time[1]
            se == current_speech_end_time[1]
            rs == current_response_start_time[1]
            data == Turn(tasks[k].interaction_id, ss, se, rs, t,
                         AsOnMessage(ss, se, rs, t))
        IN  /\ current_response_end_time' = Some(t)
            /\ now' = t
            /\ interactions' = Append(interactions, Stamped(data, session_id))
            /\ tasks' = [tasks EXCEPT ![k].pc = "done",
                                      ![k].response_end = t,
                                      ![k].logged = Len(interactions) + 1]
    /\ last_call' = "on_message"
    /\ ret' = RetNone
    /\ TurnFrame
    /\ UNCHANGED <<interaction_count, current_speech_start_time,
                   current_speech_end_time, current_response_start_time,
                   vad_start_time, vad_end_time>>

NextTurns ==
    \/ OnVadStart
    \/ OnVadEnd
    \/ MessageBegin
    \/ \E k \in 1..Len(tasks) : MessageFinish(k)

SpecTurns == InitTurns /\ [][NextTurns]_vars

\* The record invocation k logged.
RecordOf(k) == interactions[tasks[k].logged]

\* C22 as claimed: a turn whose on_message found both VAD times set logs
\* them as its speech_start_time and speech_end_time.
C22_VadTimesLogged ==
    \A k \in 1..Len(tasks) :
        (tasks[k].pc = "done" /\ tasks[k].vad # None) =>
            /\ RecordOf(k).speech_start_time = tasks[k].vad[1][1]
            /\ RecordOf(k).speech_end_time = tasks[k].vad[1][2]

\* C23 as claimed: a record carries the id and the four timestamps its own
\* on_message invocation took, ordered start <= end = response start
\* <= response end, however the invocations interleave at their awaits.
C23_RecordCarriesOwnTurn ==
    \A k \in 1..Len(tasks) :
        tasks[k].pc = "done" =>
            LET r == RecordOf(k)
            IN  /\ r.interaction_id = tasks[k].interaction_id
                /\ r.speech_start_time = tasks[k].speech_start
                /\ r.speech_end_time = tasks[k].speech_end
                /\ r.response_start_time = tasks[k].response_start
                /\ r.agent_response_end_time = tasks[k].response_end
                /\ r.speech_start_time <= r.speech_end_time
                /\ r.speech_end_time = r.response_start_time
                /\ r.response_start_time <= r.agent_response_end_time


\* C24 as claimed: a /metrics response is a consistent snapshot: its
\* total_questions is the number of records it lists and every listed record
\* has its idle and waiting times computed, a turn logged while the request
\* is served included.
C24_MetricsSnapshotConsistent ==
    (last_call = "get_metrics" /\ ret.kind = "metrics" /\ ret.summary # None)
        =>
        /\ ret.summary[1].total_questions = Len(ret.interactions)
        /\ \A i \in 1..Len(ret.interactions) :
               /\ ret.interactions[i].agent_idle_time_per_question
                      = IdleOf(ret.interactions[i])
               /\ ret.interactions[i].user_response_waiting_time
                      = WaitingOf(ret.interactions, i, session_start_time)


\* ------------------------------------------------ call.py
\* Texts are sequences of characters, so that replace and startswith are
\* computed.

\* Longest phone number dialled.
MaxPhone == 3

\* "ST_BGckDMqrXEe2" (call.py 27)
TrunkId ==
    <<"S", "T", "_", "B", "G", "c", "k", "D", "M", "q", "r", "X", "E", "e", "2">>

\* The values of PHONE_NUMBER: texts of '+', '-' and a digit.
PhoneNumbers ==
    UNION {[1..n -> {"+", "-", "9"}] : n \in 1..MaxPhone}

\* text.replace(ch, '')
RECURSIVE Replace(_, _)
Replace(text, ch) ==
    IF text = <<>> THEN <<>>
    ELSE IF Head(text) = ch THEN Replace(Tail(text), ch)
    ELSE <<Head(text)>> \o Replace(Tail(text), ch)

\* f"call-{phone_number.replace('+', '').replace('-', '')}-{int(loop.time())}"
RoomName(phone, t) == <<"call-", Replace(Replace(phone, "+"), "-"), "-", t>>

\* not self.outbound_trunk_id or not self.outbound_trunk_id.startswith("ST_")
TrunkInvalid(id) ==
    \/ id = <<>>
    \/ Len(id) < 3
    \/ SubSeq(id, 1, 3) # <<"S", "T", "_">>

\* Mutant: make_outbound_call lets the exception of make_call through.
OutboundResultNoCatch(r) ==
    IF r.kind = "raise" THEN RetRaise
    ELSE IF r.kind = "room" THEN r
    ELSE RetNone

\* What make_outbound_call returns for what make_call did (call.py 82-107):
\* the room name when it is truthy, None otherwise and on any Exception.
OutboundResult(r) ==
    IF r.kind = "raise" THEN RetNone
    ELSE IF r.kind = "room" /\ r.val # <<>> THEN r
    ELSE RetNone

\* What the rest of make_outbound_call leaves alone.
TelFrame ==
    UNCHANGED <<session_start_time, session_end_time, interactions,
                session_id, now, fileVars, room, conversation_id,
                interaction_count, calls, call_base, session_ends, httpVars,
                turnVars, monVars>>

\* make_outbound_call is invoked: TelephonyManager() (setup_api), the phone
\* number, and make_call up to the await of create_dispatch.
MakeOutboundCall ==
    /\ tel_pc \in {"idle", "done"}
    /\ tel_calls < MaxCalls
    /\ \E phone \in PhoneNumbers :
        \E t \in 0..(MaxTime - 1) :
            /\ phone_number' = phone
            /\ room_name' = RoomName(phone, t)
    /\ outbound_trunk_id' = TrunkId
    /\ dispatch_created' = FALSE
    /\ sip_created' = FALSE
    /\ lkapi_closed' = FALSE
    /\ tel_calls' = tel_calls + 1
    /\ tel_pc' = "dispatch"
    /\ last_call' = "make_outbound_call_entry"
    /\ ret' = RetNone
    /\ TelFrame

\* create_dispatch returns: the trunk id is checked and make_call goes on to
\* the await of create_sip_participant, or returns None.
DispatchCreated ==
    /\ tel_pc = "dispatch"
    /\ dispatch_created' = TRUE
    /\ IF TrunkInvalid(outbound_trunk_id)
       THEN /\ tel_pc' = "done"
            /\ ret' = OutboundResult(RetNone)
            /\ last_call' = "make_outbound_call"
       ELSE /\ tel_pc' = "sip"
            /\ UNCHANGED <<ret, last_call>>
    /\ TelFrame
    /\ UNCHANGED <<outbound_trunk_id, phone_number, room_name, sip_created,
                   lkapi_closed, tel_calls>>

\* create_dispatch raises: make_call has no handler there.
DispatchFails ==
    /\ tel_pc = "dispatch"
    /\ tel_pc' = "done"
    /\ ret' = OutboundResult(RetRaise)
    /\ last_call' = "make_outbound_call"
    /\ TelFrame
    /\ UNCHANGED <<outbound_trunk_id, phone_number, room_name,
                   dispatch_created, sip_created, lkapi_closed, tel_calls>>

\* create_sip_participant returns: make_call returns room_name (line 64).
SipCreated ==
    /\ tel_pc = "sip"
    /\ sip_created' = TRUE
    /\ tel_pc' = "done"
    /\ ret' = OutboundResult([kind |-> "room", val |-> room_name])
    /\ last_call' = "make_outbound_call"
    /\ TelFrame
    /\ UNCHANGED <<outbound_trunk_id, phone_number, room_name,
                   dispatch_created, lkapi_closed, tel_calls>>

\* create_sip_participant raises: make_call returns None (lines 66-68).
SipFails ==
    /\ tel_pc = "sip"
    /\ tel_pc' = "done"
    /\ ret' = OutboundResult(RetNone)
    /\ last_call' = "make_outbound_call"
    /\ TelFrame
    /\ UNCHANGED <<outbound_trunk_id, phone_number, room_name,
                   dispatch_created, sip_created, lkapi_closed, tel_calls>>

\* `await self.lkapi.aclose()` (line 72) follows the try statement, both of
\* whose branches return: no step of make_call leads to it.
NextCall ==
    \/ MakeOutboundCall
    \/ DispatchCreated
    \/ DispatchFails
    \/ SipCreated
    \/ SipFails

SpecCall == Init /\ [][NextCall]_vars

C26_ConnectionClosed == tel_pc = "done" => lkapi_closed


\* ------------------------------------------------ tests/inactivity.py
\* Time is counted in seconds; the monitor wakes when its sleep is over and
\* time does not pass it by.

TIMEOUT_SECONDS == 30
PROMPT_WARNING_TIME == 10
GOODBYE_DELAY == 3

\* Longest the agent speaks without a pause, in seconds.
MaxSpeak == 2

\* Seconds after the latest start of the monitor in which the user, or the
\* agent answering the user, still begins to speak in the quiet environment.
MaxTalk == 3

\* Seconds between line 34 and the creation of the monitor task (connect,
\* wait_for_participant): none, or more than the timeout.
JoinDelays == {0, TIMEOUT_SECONDS + 1}

\* From this second on the quiet environment has no user speech.
QuietAfter == TIMEOUT_SECONDS + 1 + MaxTalk

\* The last second followed.
Horizon ==
    QuietAfter + PROMPT_WARNING_TIME + 2 * MaxSpeak + TIMEOUT_SECONDS
        + GOODBYE_DELAY + 4

\* What the monitor and the handlers leave alone.
MonFrame ==
    UNCHANGED <<session_start_time, session_end_time, interactions,
                session_id, now, fileVars, room, conversation_id,
                interaction_count, calls, call_base, session_ends, httpVars,
                turnVars, telVars>>

\* The idle timer: the flag, the time of the last interaction, and the
\* prompts said since it was reset.
Timer ==
    [sent |-> still_there_prompt_sent, last |-> last_interaction_time,
     prompts |-> prompts_since_reset]

\* reset_timeout() at time t
ResetTimeout(t) == [sent |-> FALSE, last |-> t, prompts |-> 0]

SetTimer(tm) ==
    /\ still_there_prompt_sent' = tm.sent
    /\ last_interaction_time' = tm.last
    /\ prompts_since_reset' = tm.prompts

\* Mutant: the agent's speech events reset the timer whatever the flag.
AgentResetsAlways(sent) == TRUE

\* `if not still_there_prompt_sent: reset_timeout()` of the two agent
\* handlers (lines 119, 127).
AgentResets(sent) == ~sent

\* Mutant: should_end_call never finds the call idle.
ShouldEndCallNever(idle_time, agent, user) == FALSE

\* should_end_call (lines 55-62)
ShouldEndCall(idle_time, agent, user) ==
    IF agent \/ user THEN FALSE ELSE idle_time > TIMEOUT_SECONDS

\* The participant has joined: agent.start, the monitor task is created and
\* runs at the first await of entrypoint, "Hello" is passed to agent.say.
ParticipantJoins ==
    /\ mon_pc = "waiting"
    /\ \E w \in JoinDelays : /\ time_s' = w
                             /\ mon_wake' = w
    /\ mon_pc' = "loop"
    /\ pending' = 1
    /\ last_call' = "entrypoint"
    /\ MonFrame
    /\ UNCHANGED <<last_interaction_time, still_there_prompt_sent,
                   is_agent_speaking, is_user_speaking, spoken_for, hangups,
                   prompts_since_reset, ret>>

\* _on_agent_started_speaking
AgentStartedSpeaking ==
    /\ mon_pc \in {"loop", "goodbye"}
    /\ ~is_agent_speaking
    /\ is_agent_speaking' = TRUE
    /\ spoken_for' = 0
    /\ pending' = 0
    /\ SetTimer(IF AgentResets(still_there_prompt_sent)
                THEN ResetTimeout(time_s) ELSE Timer)
    /\ last_call' = "agent_started_speaking"
    /\ MonFrame
    /\ UNCHANGED <<time_s, is_user_speaking, mon_pc, mon_wake, hangups, ret>>

\* _on_agent_stopped_speaking
AgentStoppedSpeaking ==
    /\ mon_pc \in {"loop", "goodbye"}
    /\ is_agent_speaking
    /\ is_agent_speaking' = FALSE
    /\ spoken_for' = 0
    /\ SetTimer(IF AgentResets(still_there_prompt_sent)
                THEN ResetTimeout(time_s) ELSE Timer)
    /\ last_call' = "agent_stopped_speaking"
    /\ MonFrame
    /\ UNCHANGED <<time_s, is_user_speaking, mon_pc, mon_wake, pending,
                   hangups, ret>>

\* _on_user_started_speaking
UserStartedSpeaking ==
    /\ mon_pc \in {"loop", "goodbye"}
    /\ ~is_user_speaking
    /\ is_user_speaking' = TRUE
    /\ SetTimer(ResetTimeout(time_s))
    /\ last_call' = "user_started_speaking"
    /\ MonFrame
    /\ UNCHANGED <<time_s, is_agent_speaking, mon_pc, mon_wake, pending,
                   spoken_for, hangups, ret>>

\* _on_user_stopped_speaking
UserStoppedSpeaking ==
    /\ mon_pc \in {"loop", "goodbye"}
    /\ is_user_speaking
    /\ is_user_speaking' = FALSE
    /\ SetTimer(ResetTimeout(time_s))
    /\ last_call' = "user_stopped_speaking"
    /\ MonFrame
    /\ UNCHANGED <<time_s, is_agent_speaking, mon_pc, mon_wake, pending,
                   spoken_for, hangups, ret>>

\* One iteration of monitor_interaction (lines 75-84): to the sleep of one
\* second, or to the sleep of GOODBYE_DELAY after "Goodbye!" was said.
MonitorIteration ==
    /\ mon_pc = "loop"
    /\ time_s >= mon_wake
    /\ LET speaking == is_agent_speaking \/ is_user_speaking
           t1 == IF speaking /\ ~still_there_prompt_sent
                 THEN ResetTimeout(time_s) ELSE Timer
           idle_time == time_s - t1.last
           prompt == /\ ~speaking
                     /\ time_s - t1.last >= PROMPT_WARNING_TIME
                     /\ ~t1.sent
       IN  IF ShouldEndCall(idle_time, is_agent_speaking, is_user_speaking)
           THEN /\ mon_pc' = "goodbye"
                /\ mon_wake' = time_s + GOODBYE_DELAY
                /\ pending' = 1
                /\ SetTimer(t1)
                /\ last_call' = "goodbye"
           ELSE /\ mon_pc' = "loop"
                /\ mon_wake' = time_s + 1
                /\ IF prompt
                   THEN /\ SetTimer([t1 EXCEPT !.sent = TRUE,
                                               !.prompts = @ + 1])
                        /\ pending' = 1
                        /\ last_call' = "send_agent_prompt"
                   ELSE /\ SetTimer(t1)
                        /\ pending' = pending
                        /\ last_call' = "monitor_interaction"
    /\ MonFrame
    /\ UNCHANGED <<time_s, is_agent_speaking, is_user_speaking, spoken_for,
                   hangups, ret>>

\* hangup() after the goodbye delay, and the break out of the loop.
Hangup ==
    /\ mon_pc = "goodbye"
    /\ time_s >= mon_wake
    /\ hangups' = hangups + 1
    /\ mon_pc' = "done"
    /\ last_call' = "hangup"
    /\ MonFrame
    /\ UNCHANGED <<time_s, last_interaction_time, still_there_prompt_sent,
                   is_agent_speaking, is_user_speaking, mon_wake, pending,
                   spoken_for, prompts_since_reset, ret>>

\* A second passes: not past the end of the monitor's sleep, nor while the
\* agent has spoken for MaxSpeak seconds.
SecondPasses ==
    /\ mon_pc \in {"loop", "goodbye"}
    /\ time_s < Horizon
    /\ time_s < mon_wake
    /\ is_agent_speaking => spoken_for < MaxSpeak
    /\ time_s' = time_s + 1
    /\ spoken_for' = IF is_agent_speaking THEN spoken_for + 1 ELSE 0
    /\ MonFrame
    /\ UNCHANGED <<last_interaction_time, still_there_prompt_sent,
                   is_agent_speaking, is_user_speaking, mon_pc, mon_wake,
                   pending, hangups, prompts_since_reset, last_call, ret>>

NextMonitor ==
    \/ ParticipantJoins
    \/ AgentStartedSpeaking
    \/ AgentStoppedSpeaking
    \/ UserStartedSpeaking
    \/ UserStoppedSpeaking
    \/ MonitorIteration
    \/ Hangup
    \/ SecondPasses

SpecMonitor == Init /\ [][NextMonitor]_vars

\* The quiet environment: the user begins to speak, and the agent begins
\* anything but what was passed to agent.say, only before QuietAfter, and
\* the user has stopped by then.
QuietUserStarted == time_s < QuietAfter /\ UserStartedSpeaking

QuietAgentStarted ==
    (pending > 0 \/ time_s < QuietAfter) /\ AgentStartedSpeaking

QuietSecondPasses == (is_user_speaking => time_s + 1 < QuietAfter) /\ SecondPasses

NextQuiet ==
    \/ ParticipantJoins
    \/ QuietAgentStarted
    \/ AgentStoppedSpeaking
    \/ QuietUserStarted
    \/ UserStoppedSpeaking
    \/ MonitorIteration
    \/ Hangup
    \/ QuietSecondPasses

\* Every speech that began ends, the participant joins, the monitor task is
\* run when its sleep is over, and time passes: no second holds infinitely
\* many speech events.
SpecQuiet ==
    /\ Init
    /\ [][NextQuiet]_vars
    /\ WF_vars(ParticipantJoins)
    /\ WF_vars(AgentStoppedSpeaking)
    /\ WF_vars(UserStoppedSpeaking)
    /\ WF_vars(MonitorIteration)
    /\ WF_vars(Hangup)
    /\ SF_vars(QuietSecondPasses)


\* C27 as claimed: the room is never disconnected while the user or the
\* agent is speaking: the step that runs hangup() starts in a state where
\* neither is_user_speaking nor is_agent_speaking holds.
C27_NoHangupWhileSpeaking ==
    [][(mon_pc = "goodbye" /\ mon_pc' = "done")
          => (~is_user_speaking /\ ~is_agent_speaking)]_vars

\* C28 as claimed: whenever the monitor decides to end the call,
\* still_there_prompt_sent is true.
C28_WarningBeforeHangup ==
    [][(mon_pc = "loop" /\ mon_pc' = "goodbye")
          => still_there_prompt_sent]_vars

\* C29: between two resets of the idle timer the prompt is said at most
\* once; an agent speech event while still_there_prompt_sent is true leaves
\* the flag and last_interaction_time as they are, and only a user speech
\* event clears a flag that was set.
C29_PromptOncePerIdlePeriod ==
    /\ [](prompts_since_reset <= 1)
    /\ [][(still_there_prompt_sent
             /\ is_agent_speaking' # is_agent_speaking)
            => (still_there_prompt_sent'
                  /\ last_interaction_time' = last_interaction_time)]_vars
    /\ [][(still_there_prompt_sent /\ ~still_there_prompt_sent')
            => is_user_speaking' # is_user_speaking]_vars

\* The agent has finished speaking the prompt more than ten seconds into an
\* idle period: the flag is still set and the timer was not touched.
C29_Witness ==
    /\ mon_pc = "loop"
    /\ last_call = "agent_stopped_speaking"
    /\ still_there_prompt_sent
    /\ prompts_since_reset = 1
    /\ time_s - last_interaction_time > PROMPT_WARNING_TIME

\* C30: in the quiet environment the monitor eventually says goodbye,
\* disconnects and leaves its loop, and disconnect is attempted exactly once.
C30_QuietCallEnds ==
    /\ <>(mon_pc = "done")
    /\ [](hangups <= 1)
    /\ [](mon_pc = "done" <=> hangups = 1)

\* The loop has ended after a warned timeout: prompt, goodbye, one
\* disconnect.
C30_Witness ==
    /\ mon_pc = "done"
    /\ hangups = 1
    /\ still_there_prompt_sent
    /\ time_s - last_interaction_time > TIMEOUT_SECONDS

=============================================================================
